---------------------------- MODULE Spec2Model ----------------------------
(***************************************************************************)
(* Model of the location-aware agent examples:                             *)
(*   location_agent/agent.py   the agent configuration root_agent          *)
(*   examples/simple_usage.py  create_agent_runner, ask_agent,             *)
(*                             run_examples, main                          *)
(*   examples/quick_start.py   quick_test                                  *)
(*                                                                         *)
(* Text is modelled by TLA+ strings.  The source strings contain emoji;    *)
(* they are left out of the string literals below because the module is    *)
(* ASCII, every other character is kept.                                   *)
(*                                                                         *)
(* Spec     runs the two entry points main() and quick_test().             *)
(* SpecAsk  calls ask_agent once with arguments drawn from bounded sets.   *)
(***************************************************************************)
EXTENDS Integers, Sequences, FiniteSets, TLC

VARIABLES
    driver,          \* "simple" (main), "quick" (quick_test), "ask" (one ask_agent call)
    args,            \* the arguments of the ask_agent call of driver "ask"
    pc,              \* position of the coroutine
    turn,            \* index of the current question of the driver
    agent,           \* the module-level object location_agent.agent.root_agent
    runner,          \* the Runner object, once constructed
    sessions,        \* the sessions held by the InMemorySessionService
    createCalls,     \* number of create_session calls made so far
    submitted,       \* the calls made to runner.run_async, in order
    seen,            \* the events the current stream has yielded so far
    streamState,     \* "none", "open", "exhausted", "failed" (it raised) or
                     \* "abandoned" (the loop body raised)
    response_parts,  \* the local list response_parts
    result,          \* outcome of the last awaited call: return value or raised exception
    outstanding,     \* number of event streams opened and not yet finished
    completed,       \* number of turns whose response has been computed
    exc,             \* the exception in flight, "none" when there is none
    printed,         \* the lines written to the console (one entry per message)
    exitCode         \* exit code of the process, -1 while it runs

vars == <<driver, args, pc, turn, agent, runner, sessions, createCalls,
          submitted, seen, streamState, response_parts, result, outstanding, completed,
          exc, printed, exitCode>>

---------------------------------------------------------------------------
(* Bounds *)

\* longest event stream the remote call yields
MaxEvents == 3

---------------------------------------------------------------------------
(* location_agent/agent.py *)

instruction ==
    "You are a helpful location-aware assistant with access to Google Maps data. **Your primary rule is to ALWAYS use the `google_maps` tool for any location-based questions.** Your internal knowledge is outdated, so you must rely on the tool for accuracy.\n\nYou can help users with:\n\n **Location Information:**\n- Find specific places, addresses, and businesses\n- Provide current business hours, reviews, and contact information\n- Give directions and navigation help\n- Share details about attractions and points of interest\n\n **Travel & Local Help:**\n- Recommend restaurants, hotels, and attractions\n- Suggest things to do based on user interests\n- Provide local insights and travel tips\n- Help with trip planning and itineraries\n\n**Guidelines:**\n- **MUST USE TOOL**: For any queries about places, businesses, directions, hours, and other real-time data, you must use the `google_maps` tool. Do not answer from memory.\n- **ATTRIBUTE**: Provide proper attribution to Google Maps when using map data (e.g., 'According to Google Maps...').\n- **CLARIFY**: Ask for clarification if a user's location or request is unclear.\n- **BE HELPFUL**: Be friendly, informative, and focus on providing current, practical information that helps the user."

description ==
    "A location-aware AI assistant that answers location-based questions. You MUST use the google_maps tool to get information about places, businesses, directions, and other real-time data. Do not rely on your internal knowledge."

\* a configuration built without its tool list
root_agent_no_tools ==
    [name        |-> "location_aware_assistant",
     model       |-> "gemini-2.5-flash",
     description |-> description,
     instruction |-> instruction,
     tools       |-> << >>,
     planner     |-> [thinking_config |-> [include_thoughts |-> TRUE]]]

root_agent ==
    [name        |-> "location_aware_assistant",
     model       |-> "gemini-2.5-flash",
     description |-> description,
     instruction |-> instruction,
     tools       |-> <<"google_maps_grounding">>,
     planner     |-> [thinking_config |-> [include_thoughts |-> TRUE]]]

---------------------------------------------------------------------------
(* Python values: None, int and float arguments *)

None == [kind |-> "None", neg |-> FALSE, whole |-> 0, frac |-> << >>]

\* an int literal
PyInt(neg, whole) == [kind |-> "int", neg |-> neg, whole |-> whole, frac |-> << >>]

\* a float literal as written in the source: sign, integer part, fraction digits
PyFloat(neg, whole, frac) == [kind |-> "float", neg |-> neg, whole |-> whole, frac |-> frac]

\* bool(x) of Python: None, 0, 0.0 and -0.0 are false
Truthy(x) ==
    /\ x.kind # "None"
    /\ \/ x.whole # 0
       \/ \E i \in 1..Len(x.frac) : x.frac[i] # 0

RECURSIVE StripZeros(_)
\* the fraction digits of the float value: trailing zeros carry no value
StripZeros(frac) ==
    IF frac = << >> THEN << >>
    ELSE IF frac[Len(frac)] = 0 THEN StripZeros(SubSeq(frac, 1, Len(frac) - 1))
    ELSE frac

RECURSIVE DigitString(_)
DigitString(ds) ==
    IF ds = << >> THEN "" ELSE ToString(ds[1]) \o DigitString(Tail(ds))

\* format(x, "") as used by an f-string replacement field {x}
FormatValue(x) ==
    IF x.kind = "None" THEN "None"
    ELSE IF x.kind = "int"
         THEN (IF x.neg /\ x.whole # 0 THEN "-" ELSE "") \o ToString(x.whole)
    ELSE (IF x.neg THEN "-" ELSE "") \o ToString(x.whole) \o "."
         \o (IF StripZeros(x.frac) = << >> THEN "0"
             ELSE DigitString(StripZeros(x.frac)))

---------------------------------------------------------------------------
(* examples/simple_usage.py : ask_agent, message construction *)

\* the annotation is appended whatever the arguments are
question_with_context_always(question, latitude, longitude) ==
    question \o "\n\n[Location context: I'm near coordinates "
             \o FormatValue(latitude) \o ", " \o FormatValue(longitude) \o "]"

question_with_context(question, latitude, longitude) ==
    IF Truthy(latitude) /\ Truthy(longitude)
    THEN question \o "\n\n[Location context: I'm near coordinates "
                  \o FormatValue(latitude) \o ", " \o FormatValue(longitude) \o "]"
    ELSE question

Part(text) == [text |-> text]

Content(role, parts) == [role |-> role, parts |-> parts]

---------------------------------------------------------------------------
(* The hard-coded questions of the two drivers *)

run_examples_questions ==
    << [question  |-> "What are some good restaurants near Times Square in New York?",
        latitude  |-> PyFloat(FALSE, 40, <<7, 5, 8, 0>>),
        longitude |-> PyFloat(TRUE, 73, <<9, 8, 5, 5>>)],
       [question  |-> "I'm visiting Paris for 3 days. What are the must-see attractions and good places to eat?",
        latitude  |-> PyFloat(FALSE, 48, <<8, 5, 6, 6>>),
        longitude |-> PyFloat(FALSE, 2, <<3, 5, 2, 2>>)],
       [question  |-> "What time is it in Tokyo right now? Also, what's the weather like there?",
        latitude  |-> None,
        longitude |-> None],
       [question  |-> "How do I get from the Eiffel Tower to the Louvre Museum in Paris? What's the best way to travel?",
        latitude  |-> PyFloat(FALSE, 48, <<8, 5, 8, 4>>),
        longitude |-> PyFloat(FALSE, 2, <<2, 9, 4, 5>>)],
       [question  |-> "I need a hotel near Central Park in New York. What are some good options with good reviews?",
        latitude  |-> PyFloat(FALSE, 40, <<7, 8, 2, 9>>),
        longitude |-> PyFloat(TRUE, 73, <<9, 6, 5, 4>>)],
       [question  |-> "How far is it from London to Paris? What are the different ways to travel between these cities?",
        latitude  |-> None,
        longitude |-> None] >>

quick_test_questions ==
    << "What are some famous landmarks in New York City?",
       "What restaurants are near Times Square in New York? I'm looking for good places to eat." >>

NumTurns(d) ==
    IF d = "simple" THEN Len(run_examples_questions)
    ELSE IF d = "quick" THEN Len(quick_test_questions)
    ELSE 1

\* the text of the message of turn t
MessageText(d, t, a) ==
    IF d = "simple"
    THEN question_with_context(run_examples_questions[t].question,
                               run_examples_questions[t].latitude,
                               run_examples_questions[t].longitude)
    ELSE IF d = "quick" THEN quick_test_questions[t]
    ELSE question_with_context(a.question, a.latitude, a.longitude)

---------------------------------------------------------------------------
(* Sessions and the runner *)

\* the identifiers create_session is called with
CreateKey(d) ==
    IF d = "quick"
    THEN [app_name |-> "quick_test_app", user_id |-> "test_user", session_id |-> "test_session"]
    ELSE [app_name |-> "location_aware_app", user_id |-> "demo_user", session_id |-> "demo_session"]

\* run_async called with a session identifier of its own
RunKeyFresh(d, r) ==
    [app_name |-> r.app_name, user_id |-> CreateKey(d).user_id, session_id |-> "new_session"]

\* the identifiers run_async is called with: the runner's app_name and the
\* user_id and session_id the driver created the session with
RunKey(d, r) ==
    [app_name |-> r.app_name, user_id |-> CreateKey(d).user_id,
     session_id |-> CreateKey(d).session_id]

NoRunner == [agent |-> "none", app_name |-> "none"]

Runner(a, app_name) == [agent |-> a.name, app_name |-> app_name]

---------------------------------------------------------------------------
(* The event stream of runner.run_async (external): every event says whether
   it is a final response and carries a content, which may be absent, with a
   list of parts, which may be empty; the text of a part may be absent. *)

NoText == "<None>"

Event(final, content, parts) == [final |-> final, content |-> content, parts |-> parts]

Events ==
    { Event(FALSE, "Content", <<Part("thinking")>>),
      Event(TRUE, "None", << >>),
      Event(TRUE, "Content", << >>),
      Event(TRUE, "Content", <<Part(NoText)>>),
      Event(TRUE, "Content", <<Part("")>>),
      Event(TRUE, "Content", <<Part("a")>>),
      Event(TRUE, "Content", <<Part("b")>>),
      Event(TRUE, "Content", <<Part("a"), Part("b")>>) }

is_final_response(e) == e.final

---------------------------------------------------------------------------
(* ask_agent / quick_test: collecting the response *)

RECURSIVE join_concat(_, _)
\* the items one after another, the separator left out
join_concat(sep, parts) ==
    IF parts = << >> THEN "" ELSE parts[1] \o join_concat(sep, Tail(parts))

RECURSIVE join(_, _)
\* str.join: sep between consecutive items
join(sep, parts) ==
    IF parts = << >> THEN ""
    ELSE IF Len(parts) = 1 THEN parts[1]
    ELSE parts[1] \o sep \o join(sep, Tail(parts))

\* the join without the fallback for an empty list
collect_response_no_sentinel(parts) == join("\n", parts)

collect_response(parts) ==
    IF parts # << >> THEN join("\n", parts) ELSE "No response received"

NoResult == [kind |-> "none", value |-> ""]

Return(v) == [kind |-> "return", value |-> v]

Raised(e) == [kind |-> "raise", value |-> e]

\* the exception classes the code meets
ExceptionKinds == {"SessionError", "RemoteError", "AttributeError", "IndexError", "TypeError"}

\* a handler for the remote errors only
CatchesRemoteOnly(e) == e = "RemoteError"

\* except Exception
Catches(e) == e \in ExceptionKinds

\* the driver goes on without waiting for the stream
PcAfterSubmitNoAwait == "turn"

\* the driver is suspended in "async for" until the stream is exhausted
PcAfterSubmit == "consume"

\* a handler that starts the failed step again
PcAfterExceptRetry == IF turn = 0 THEN "start" ELSE "turn"

\* the except block is the last statement of the entry point
PcAfterExcept == "done"

---------------------------------------------------------------------------
(* Inputs of the single ask_agent call of SpecAsk *)

Questions == {"", "What time is it in Tokyo right now?"}

Coordinates ==
    { None,
      PyInt(FALSE, 0),
      PyFloat(FALSE, 0, <<0>>),
      PyFloat(FALSE, 40, <<7, 5, 8, 0>>),
      PyFloat(TRUE, 73, <<9, 8, 5, 5>>) }

NoArgs == [question |-> "", latitude |-> None, longitude |-> None]

---------------------------------------------------------------------------
(* Initial states *)

Init ==
    /\ driver \in {"simple", "quick"}
    /\ args = NoArgs
    /\ pc = "start"
    /\ turn = 0
    /\ agent = root_agent
    /\ runner = NoRunner
    /\ sessions = {}
    /\ createCalls = 0
    /\ submitted = << >>
    /\ seen = << >>
    /\ streamState = "none"
    /\ response_parts = << >>
    /\ result = NoResult
    /\ outstanding = 0
    /\ completed = 0
    /\ exc = "none"
    /\ printed = << >>
    /\ exitCode = -1

\* the state after create_agent_runner(), at the call of ask_agent
InitAsk ==
    /\ driver = "ask"
    /\ args \in [question : Questions, latitude : Coordinates, longitude : Coordinates]
    /\ pc = "turn"
    /\ turn = 1
    /\ agent = root_agent
    /\ runner = Runner(root_agent, CreateKey("ask").app_name)
    /\ sessions = {CreateKey("ask")}
    /\ createCalls = 1
    /\ submitted = << >>
    /\ seen = << >>
    /\ streamState = "none"
    /\ response_parts = << >>
    /\ result = NoResult
    /\ outstanding = 0
    /\ completed = 0
    /\ exc = "none"
    /\ printed = << >>
    /\ exitCode = -1

---------------------------------------------------------------------------
(* Actions *)

\* what the driver prints before its first await
Header(d) ==
    IF d = "simple"
    THEN <<"Starting Location-Aware Agent Examples...",
           "Location-Aware Agent - Simple Usage Examples">>
    ELSE <<"Location-Aware Agent - Quick Start Test">>

\* session creation succeeds (simple: the Runner is built before, quick: after)
CreateSession ==
    /\ pc = "start"
    /\ runner' = Runner(agent, CreateKey(driver).app_name)
    /\ sessions' = sessions \cup {CreateKey(driver)}
    /\ createCalls' = createCalls + 1
    /\ printed' = printed \o Header(driver)
    /\ turn' = 1
    /\ pc' = "turn"
    /\ UNCHANGED <<driver, args, agent, submitted, seen, streamState,
                   response_parts, result, outstanding, completed, exc, exitCode>>

\* session creation raises
CreateSessionFails ==
    /\ pc = "start"
    /\ runner' = IF driver = "simple" THEN Runner(agent, CreateKey(driver).app_name)
                 ELSE runner
    /\ createCalls' = createCalls + 1
    /\ printed' = printed \o Header(driver)
    /\ exc' = "SessionError"
    /\ result' = Raised("SessionError")
    /\ pc' = "raised"
    /\ UNCHANGED <<driver, args, turn, agent, sessions, submitted, seen,
                   streamState, response_parts, outstanding, completed, exitCode>>

\* the message is built and handed to runner.run_async
Submit ==
    /\ pc = "turn"
    /\ submitted' = Append(submitted,
          [turn        |-> turn,
           key         |-> RunKey(driver, runner),
           new_message |-> Content("user", <<Part(MessageText(driver, turn, args))>>)])
    /\ seen' = << >>
    /\ streamState' = "open"
    /\ response_parts' = << >>
    /\ result' = NoResult
    /\ outstanding' = outstanding + 1
    /\ pc' = PcAfterSubmit
    /\ UNCHANGED <<driver, args, turn, agent, runner, sessions, createCalls,
                   completed, exc, printed, exitCode>>

\* one iteration of "async for event in events"
ConsumeEvent(e) ==
    /\ pc = "consume"
    /\ Len(seen) < MaxEvents
    /\ seen' = Append(seen, e)
    /\ IF ~is_final_response(e)
       THEN UNCHANGED <<streamState, response_parts, result, outstanding, exc, pc>>
       ELSE IF e.content = "None"
       THEN /\ exc' = "AttributeError"
            /\ streamState' = "abandoned"
            /\ result' = Raised("AttributeError")
            /\ outstanding' = outstanding - 1
            /\ pc' = "raised"
            /\ UNCHANGED response_parts
       ELSE IF e.parts = << >>
       THEN /\ exc' = "IndexError"
            /\ streamState' = "abandoned"
            /\ result' = Raised("IndexError")
            /\ outstanding' = outstanding - 1
            /\ pc' = "raised"
            /\ UNCHANGED response_parts
       ELSE /\ response_parts' = Append(response_parts, e.parts[1].text)
            /\ UNCHANGED <<streamState, result, outstanding, exc, pc>>
    /\ UNCHANGED <<driver, args, turn, agent, runner, sessions, createCalls,
                   submitted, completed, printed, exitCode>>

\* the remote call fails while the stream is read
StreamRaises ==
    /\ pc = "consume"
    /\ streamState' = "failed"
    /\ exc' = "RemoteError"
    /\ result' = Raised("RemoteError")
    /\ outstanding' = outstanding - 1
    /\ pc' = "raised"
    /\ UNCHANGED <<driver, args, turn, agent, runner, sessions, createCalls,
                   submitted, seen, response_parts, completed, printed, exitCode>>

\* the stream is exhausted: the response is computed and, in the drivers, printed
StreamEnd ==
    /\ pc = "consume"
    /\ streamState' = "exhausted"
    /\ IF \E i \in 1..Len(response_parts) : response_parts[i] = NoText
       THEN /\ exc' = "TypeError"
            /\ result' = Raised("TypeError")
            /\ outstanding' = outstanding - 1
            /\ pc' = "raised"
            /\ UNCHANGED <<turn, completed, printed>>
       ELSE /\ result' = Return(collect_response(response_parts))
            /\ outstanding' = outstanding - 1
            /\ completed' = completed + 1
            /\ exc' = exc
            /\ IF driver = "ask"
               THEN /\ pc' = "returned"
                    /\ UNCHANGED <<turn, printed>>
               ELSE /\ printed' = Append(printed, "answer")
                    /\ IF turn < NumTurns(driver)
                       THEN turn' = turn + 1 /\ pc' = "turn"
                       ELSE turn' = turn /\ pc' = "banner"
    /\ UNCHANGED <<driver, args, agent, runner, sessions, createCalls,
                   submitted, seen, response_parts, exitCode>>

SuccessBanner(d) ==
    IF d = "simple" THEN "All examples completed successfully!"
    ELSE "Quick test completed successfully!"

\* after the last turn
PrintBanner ==
    /\ pc = "banner"
    /\ printed' = Append(printed, SuccessBanner(driver))
    /\ exitCode' = 0
    /\ pc' = "done"
    /\ UNCHANGED <<driver, args, turn, agent, runner, sessions, createCalls,
                   submitted, seen, streamState, response_parts, result, outstanding,
                   completed, exc>>

ErrorMessage(d, e) ==
    IF d = "simple" THEN "Error running examples: " \o e
    ELSE "Quick test failed: " \o e

Troubleshooting(d) ==
    IF d = "simple" THEN "Troubleshooting:" ELSE "Troubleshooting steps:"

\* the try statement of main() / quick_test()
Except ==
    /\ pc = "raised"
    /\ driver # "ask"
    /\ IF Catches(exc)
       THEN /\ printed' = printed \o <<ErrorMessage(driver, exc), Troubleshooting(driver)>>
            /\ exc' = "none"
            /\ exitCode' = 0
       ELSE /\ exitCode' = 1
            /\ UNCHANGED <<printed, exc>>
    /\ pc' = PcAfterExcept
    /\ UNCHANGED <<driver, args, turn, agent, runner, sessions, createCalls,
                   submitted, seen, streamState, response_parts, result, outstanding, completed>>

Next ==
    \/ CreateSession
    \/ CreateSessionFails
    \/ Submit
    \/ \E e \in Events : ConsumeEvent(e)
    \/ StreamRaises
    \/ StreamEnd
    \/ PrintBanner
    \/ Except

Spec == Init /\ [][Next]_vars

NextAsk ==
    \/ Submit
    \/ \E e \in Events : ConsumeEvent(e)
    \/ StreamRaises
    \/ StreamEnd

SpecAsk == InitAsk /\ [][NextAsk]_vars

---------------------------------------------------------------------------
(* Properties *)

HasFinal(evs) == \E i \in 1..Len(evs) : evs[i].final

\* a final event whose first part has a text
HasText(e) == e.content # "None" /\ e.parts # << >> /\ e.parts[1].text # NoText

SubmittedText(i) == submitted[i].new_message.parts[1].text

\* C1: for every question and every latitude/longitude pair given to ask_agent
\* (both not None, values equal to 0 included) the text submitted to
\* runner.run_async is the question followed by
\* "\n\n[Location context: I'm near coordinates <latitude>, <longitude>]".
C1_AnnotationAppended ==
    (driver = "ask" /\ args.latitude # None /\ args.longitude # None)
    => \A i \in 1..Len(submitted) :
          SubmittedText(i) =
              args.question \o "\n\n[Location context: I'm near coordinates "
                  \o FormatValue(args.latitude) \o ", "
                  \o FormatValue(args.longitude) \o "]"

\* C2: when ask_agent is called with latitude and longitude both None, the
\* submitted message has a single part whose text is the question, unmodified.
C2_NoCoordinatesUnmodified ==
    (driver = "ask" /\ args.latitude = None /\ args.longitude = None)
    => \A i \in 1..Len(submitted) :
          /\ submitted[i].new_message.role = "user"
          /\ submitted[i].new_message.parts = <<[text |-> args.question]>>

C2_Witness ==
    /\ driver = "ask"
    /\ args.latitude = None /\ args.longitude = None
    /\ args.question = "What time is it in Tokyo right now?"
    /\ Len(submitted) = 1
    /\ SubmittedText(1) = "What time is it in Tokyo right now?"

\* C3: when the event stream ends having yielded no final-response event (it
\* is empty or has only non-final events), the collected response is the
\* string "No response received" and no exception is raised.
C3_SentinelWhenNoFinal ==
    (streamState = "exhausted" /\ ~HasFinal(seen))
    => /\ result = [kind |-> "return", value |-> "No response received"]
       /\ exc = "none"

C3_Witness ==
    /\ streamState = "exhausted"
    /\ Len(seen) = 2
    /\ ~HasFinal(seen)
    /\ result.kind = "return"
    /\ result.value = "No response received"

\* the text a final event contributes, "" when it has none
TextOf(e) == IF HasText(e) THEN e.parts[1].text ELSE ""

RECURSIVE Concatenated(_)
\* the texts of the final events one after another
Concatenated(evs) ==
    IF evs = << >> THEN ""
    ELSE IF evs[1].final THEN TextOf(evs[1]) \o Concatenated(Tail(evs))
    ELSE Concatenated(Tail(evs))

RECURSIVE NewlineSeparated(_)
\* the first-part texts of the final events, a newline between consecutive ones
NewlineSeparated(evs) ==
    IF evs = << >> THEN ""
    ELSE LET front == SubSeq(evs, 1, Len(evs) - 1)
             last  == evs[Len(evs)]
         IN  IF ~last.final THEN NewlineSeparated(front)
             ELSE IF HasFinal(front)
                  THEN NewlineSeparated(front) \o "\n" \o last.parts[1].text
                  ELSE last.parts[1].text

\* C4 as stated: for every event stream with at least one final-response event
\* the call returns exactly the texts of the final events one after another,
\* nothing else added.  (Stated for the streams whose final events all carry
\* a text; C10 is about the others.)
C4_PlainConcatenation ==
    (/\ streamState \in {"exhausted", "abandoned"}
     /\ HasFinal(seen)
     /\ \A i \in 1..Len(seen) : seen[i].final => HasText(seen[i]))
    => result = [kind |-> "return", value |-> Concatenated(seen)]

\* C4 amended: for every event stream with at least one final-response event,
\* if every final event has a content whose first part has a text the call
\* returns the first-part texts of the final events in stream order with one
\* newline between consecutive texts (nothing from non-final events or from
\* other parts); otherwise it raises AttributeError, IndexError or TypeError.
C4_NewlineJoined ==
    (streamState \in {"exhausted", "abandoned"} /\ HasFinal(seen))
    => IF \A i \in 1..Len(seen) : seen[i].final => HasText(seen[i])
       THEN result = [kind |-> "return", value |-> NewlineSeparated(seen)]
       ELSE /\ result.kind = "raise"
            /\ result.value \in {"AttributeError", "IndexError", "TypeError"}

C4_Witness ==
    /\ streamState = "exhausted"
    /\ Len(seen) = 3
    /\ seen[1].final /\ ~seen[2].final /\ seen[3].final
    /\ seen[1].parts = <<[text |-> "a"], [text |-> "b"]>>
    /\ result = [kind |-> "return", value |-> "a\nb"]

\* C5: the session is created exactly once per run, before the first message
\* is submitted; every call of runner.run_async names that session and the
\* session service holds exactly one session after every turn.
C5_SessionReused ==
    /\ createCalls <= 1
    /\ Cardinality(sessions) <= 1
    /\ submitted # << >> => (createCalls = 1 /\ Cardinality(sessions) = 1)
    /\ \A i \in 1..Len(submitted) : submitted[i].key \in sessions

C5_Witness ==
    /\ driver = "simple"
    /\ Len(submitted) = 6
    /\ completed = 6
    /\ Cardinality(sessions) = 1
    /\ submitted[1].key = submitted[6].key

\* C6: in both entry points an exception raised by session creation, by the
\* remote call or while its stream is consumed is caught at the outermost
\* scope: the error message and the troubleshooting list are printed, nothing
\* propagates and the process ends with exit code 0, failed or not.
C6_CaughtAtTopLevel ==
    /\ exitCode \in {-1, 0}
    /\ pc = "done" =>
          /\ exitCode = 0
          /\ exc = "none"
          /\ result.kind = "raise" =>
                /\ Len(printed) >= 2
                /\ printed[Len(printed) - 1] =
                      (IF driver = "simple" THEN "Error running examples: "
                       ELSE "Quick test failed: ") \o result.value
                /\ printed[Len(printed)] =
                      (IF driver = "simple" THEN "Troubleshooting:"
                       ELSE "Troubleshooting steps:")

C6_Witness ==
    /\ pc = "done"
    /\ driver = "quick"
    /\ result = [kind |-> "raise", value |-> "IndexError"]
    /\ completed = 1
    /\ exitCode = 0

\* C7: at most one remote call is outstanding at any time: the message of
\* turn k+1 is submitted only after the stream of turn k has been consumed and
\* its response computed.
C7_OneOutstanding ==
    /\ outstanding \in {0, 1}
    /\ outstanding = 1 <=> pc = "consume"
    /\ Len(submitted) <= completed + 1
    /\ pc = "consume" => Len(submitted) = completed + 1

C7_Witness ==
    /\ Len(submitted) = 2
    /\ completed = 1
    /\ outstanding = 1
    /\ Len(seen) = 1

\* C8: the agent configuration has a non-empty instruction and at least one
\* tool, google_maps_grounding; it is the object the runner is built with and
\* no step of a driver changes any of its fields.
C8_AgentConfigFixed ==
    /\ [](/\ agent.instruction # ""
          /\ Len(agent.tools) >= 1
          /\ \E i \in 1..Len(agent.tools) : agent.tools[i] = "google_maps_grounding"
          /\ agent.name = "location_aware_assistant"
          /\ runner.agent \in {"none", agent.name})
    /\ [][agent' = agent]_vars

C8_Witness ==
    /\ pc = "done"
    /\ completed = 2
    /\ runner.agent = "location_aware_assistant"
    /\ agent.tools = <<"google_maps_grounding">>
    /\ agent.planner.thinking_config.include_thoughts

BannerPrinted ==
    \E i \in 1..Len(printed) :
        printed[i] \in {"All examples completed successfully!",
                        "Quick test completed successfully!"}

ErrorsPrinted ==
    Cardinality({i \in 1..Len(printed) :
                    printed[i] \in {(IF driver = "simple" THEN "Error running examples: "
                                     ELSE "Quick test failed: ") \o e : e \in ExceptionKinds}})

\* C9: no recovery and no retry: a failure is caught once; once turn k has
\* raised nothing more is submitted (turn k is not resubmitted, no later turn
\* is submitted), and the success banner is printed if and only if every turn
\* completed without an exception.
C9_NoRetry ==
    /\ [](/\ \A i \in 1..Len(submitted) : submitted[i].turn = i
          /\ ErrorsPrinted <= 1
          /\ BannerPrinted => (completed = NumTurns(driver) /\ result.kind # "raise")
          /\ pc = "done" =>
                (BannerPrinted <=> (completed = NumTurns(driver) /\ result.kind # "raise"))
          /\ pc = "done" => (ErrorsPrinted = 1 <=> result.kind = "raise"))
    /\ [][result.kind = "raise" => submitted' = submitted]_vars

C9_Witness ==
    /\ pc = "done"
    /\ driver = "simple"
    /\ result = [kind |-> "raise", value |-> "RemoteError"]
    /\ Len(submitted) = 3
    /\ completed = 2
    /\ ~BannerPrinted

\* C10: for every finite event stream that raises no error itself, the call
\* returns a string without raising, whatever the events look like (final
\* events without content, with no parts, with an empty text), and the
\* sentinel is returned only when the stream has no final event.
C10_NeverRaises ==
    streamState \in {"exhausted", "abandoned"}
    => /\ result.kind = "return"
       /\ HasFinal(seen) => result.value # "No response received"

=============================================================================
